---- MODULE Spec2Model ----
(***************************************************************************)
(* A model of metaflow: the pipeline chain of do.ts (Do, Thunk, AsyncThunk) *)
(* run on a model of the host's promise jobs, and the exception chain of   *)
(* exception.ts (Try, TryChain, isErrorOf).                                *)
(***************************************************************************)
EXTENDS Integers, Sequences, FiniteSets, TLC

VARIABLES
    cls,      \* class of the chain object in hand, the receiver of the next call: "none", "Thunk", "AsyncThunk"
    steps,    \* its _steps: a sequence of [isAsync, f]
    chains,   \* the chain objects constructed so far, in order: [cls, steps]
    ps,       \* the heap of native promises, indexed by identity
    queue,    \* the host's microtask queue (FIFO)
    trace,    \* the step invocations made so far, in order
    counter,  \* the MicrotickCouter of the tests: [count, fin]
    frame,    \* the async function of AsyncThunk.done(): [pc, i, P]
    caller,   \* the code that called done(): [pc, ok, v, at, fin]
    tphase,   \* the expression Try(f).m(..)...: "start", "chain", "value", "raised"
    tchain,   \* the TryChain it has reached: [id, type, v] (its result)
    tprev,    \* the TryChain the last method was called on
    tlast,    \* the calls made so far, the last one last: [op, pred, fn, arg]
    tout,     \* what the expression returned or raised at its end
    tlog,     \* the user's callbacks invoked so far: [role, fn, arg]
    tnew      \* the TryChain objects constructed so far

dovars == <<cls, steps, chains, ps, queue, trace, counter, frame, caller>>
tryvars == <<tphase, tchain, tprev, tlast, tout, tlog, tnew>>
vars == <<dovars, tryvars>>

\* ---------------------------------------------------------------- bounds

\* Steps appended after Do(value).
MaxSteps == 3
\* maxCount of the MicrotickCouter (the tests use 10).
MaxCount == 5
\* Chain objects constructed.
MaxChains == 4

\* ---------------------------------------------------------------- values

\* A JavaScript value: t is its type or class, n its number or identity,
\* m the message of an error.
Val(t, n, m) == [t |-> t, n |-> n, m |-> m]
Num(n) == Val("number", n, "")
Undef == Val("undefined", 0, "")
NaNv == Val("NaN", 0, "")
Str(m) == Val("string", 0, m)
Prom(p) == Val("Promise", p, "")

\* The values given to Do().
Seeds == {Num(0), Num(42)}

\* The error a user callback throws or rejects with.
UserErr == Val("Error", 1, "boom")

\* x + y of JavaScript
Plus(x, y) ==
    IF x.t = "number" /\ y.t = "number" THEN Num(x.n + y.n)
    ELSE IF x.t \in {"number", "undefined", "NaN"} /\ y.t \in {"number", "undefined", "NaN"} THEN NaNv
    ELSE Str("concat")

\* x * 2 of JavaScript
Times2(x) == IF x.t = "number" THEN Num(x.n * 2) ELSE NaNv

\* ---------------------------------------------------------------- promises
\* A machine state handed through the operators: [ps, q, tr, fr].

Job(r, ok, v) == [k |-> r.k, d |-> r.d, cv |-> r.cv, ok |-> ok, v |-> v]
Reaction(k, d, cv) == [k |-> k, d |-> d, cv |-> cv]
CounterJob == Job(Reaction("counter", 0, Undef), TRUE, Undef)

Enq(S, job) == [S EXCEPT !.q = Append(@, job)]

\* a new promise object; its identity is Len(S.ps) + 1
NewP(S, s, v, timer) ==
    [S EXCEPT !.ps = Append(@, [s |-> s, v |-> v, rs |-> <<>>, timer |-> timer])]

\* FulfillPromise / RejectPromise: settle once, one job per reaction
Settle(S, p, ok, v) ==
    IF S.ps[p].s # "pending" THEN S
    ELSE LET rs == S.ps[p].rs
         IN  [S EXCEPT !.ps[p] = [s |-> IF ok THEN "fulfilled" ELSE "rejected",
                                  v |-> v, rs |-> <<>>, timer |-> FALSE],
                       !.q = @ \o [j \in 1..Len(rs) |-> Job(rs[j], ok, v)]]

\* the resolve function of a promise: a thenable is adopted in a later job
ResolveP(S, p, v) ==
    IF v.t = "Promise"
    THEN Enq(S, Job(Reaction("thenable", p, v), TRUE, Undef))
    ELSE Settle(S, p, TRUE, v)

\* PerformPromiseThen
PerformThen(S, p, r) ==
    IF S.ps[p].s = "pending"
    THEN [S EXCEPT !.ps[p].rs = Append(@, r)]
    ELSE Enq(S, Job(r, S.ps[p].s = "fulfilled", S.ps[p].v))

\* `await v`: a native promise is used as it is, another value is wrapped
AwaitV(S, v, r) ==
    IF v.t = "Promise" THEN PerformThen(S, v.n, r)
    ELSE Enq(S, Job(r, TRUE, v))

Ret(S, v) == [S |-> S, out |-> "ret", v |-> v]
Throw(S, e) == [S |-> S, out |-> "throw", v |-> e]
RetNewP(S, s, v, timer) == Ret(NewP(S, s, v, timer), Prom(Len(S.ps) + 1))

\* ---------------------------------------------------------------- callbacks

SyncBodies == {"inc", "dbl", "mkp", "throw"}
AsyncBodies == {"resInc", "pendInc", "rej", "throw"}
RcallChoices == {<<"double", <<>>>>, <<"plus", <<Num(1)>>>>}
RcallAwaitChoices == {<<"asyncDouble", <<>>>>}
TapBodies == {"log"}
TapAwaitBodies == {"logAsync"}

Arg1(args) == IF Len(args) >= 1 THEN args[1] ELSE Undef

\* The user's callbacks, called with receiver thisv and arguments args.
Body(S, b, thisv, args) ==
    CASE b = "inc" -> Ret(S, Plus(Arg1(args), Num(1)))
      [] b = "dbl" -> Ret(S, Times2(Arg1(args)))
      [] b = "mkp" -> RetNewP(S, "fulfilled", Times2(Arg1(args)), FALSE)
      [] b = "throw" -> Throw(S, UserErr)
      [] b = "resInc" -> RetNewP(S, "fulfilled", Plus(Arg1(args), Num(1)), FALSE)
      [] b = "pendInc" -> RetNewP(S, "pending", Plus(Arg1(args), Num(1)), TRUE)
      [] b = "rej" -> RetNewP(S, "rejected", UserErr, FALSE)
      [] b = "double" -> Ret(S, Times2(thisv))
      [] b = "plus" -> Ret(S, Plus(thisv, Arg1(args)))
      [] b = "asyncDouble" -> RetNewP(S, "fulfilled", Times2(thisv), FALSE)
      [] b = "log" -> Ret(S, Undef)
      [] b = "logAsync" -> RetNewP(S, "fulfilled", Undef, FALSE)

\* ---------------------------------------------------------------- steps

Fn(w, b, a) == [w |-> w, b |-> b, a |-> a]

\* () => value
SeedFn(S, f, x) == Ret(S, f.a[1])

\* a callback given to pipe or pipeAwait: f(current)
PlainFn(S, f, x) == Body(S, f.b, Undef, <<x>>)

\* (value) => f.call(value, ...args)
RcallFn(S, f, x) == Body(S, f.b, x, f.a)

\* (value) => { f(value); return value; }
TapForward(r, x) == IF r.out = "throw" THEN r ELSE Ret(r.S, x)
TapFn(S, f, x) == TapForward(Body(S, f.b, Undef, <<x>>), x)

\* (value) => f(value).then(() => value)
TapAwaitThen(r, x) ==
    IF r.out = "throw" THEN r
    ELSE Ret(PerformThen(NewP(r.S, "pending", Undef, FALSE), r.v.n,
                         Reaction("constThen", Len(r.S.ps) + 1, x)),
             Prom(Len(r.S.ps) + 1))
TapAwaitFn(S, f, x) == TapAwaitThen(Body(S, f.b, Undef, <<x>>), x)

CallFn(S, f, x) ==
    CASE f.w = "seed" -> SeedFn(S, f, x)
      [] f.w = "plain" -> PlainFn(S, f, x)
      [] f.w = "rcall" -> RcallFn(S, f, x)
      [] f.w = "tap" -> TapFn(S, f, x)
      [] f.w = "tapAwait" -> TapAwaitFn(S, f, x)

\* the state, now, of the promise the previous step returned
PrevState(S) ==
    IF S.tr = <<>> THEN "none"
    ELSE LET v == S.tr[Len(S.tr)].v
         IN  IF v.t = "Promise" THEN S.ps[v.n].s ELSE "none"

Event(e, i, v, prev) == [e |-> e, i |-> i, v |-> v, prev |-> prev]

\* f(current) for step i, with its invocation recorded
Called(S, i, x) == [S EXCEPT !.tr = Append(@, Event("call", i, x, PrevState(S)))]
Returned(r, i) == [r EXCEPT !.S.tr = Append(@, Event(r.out, i, r.v, "none"))]
Step(S, i, x) == Returned(CallFn(Called(S, i, x), steps[i].f, x), i)

\* Thunk.done(): let current = undefined; for (...) current = f(current)
RECURSIVE RunSync(_, _, _)
RunSyncNext(r, i) == IF r.out = "throw" THEN r ELSE RunSync(r.S, i + 1, r.v)
RunSync(S, i, cur) ==
    IF i > Len(steps) THEN Ret(S, cur) ELSE RunSyncNext(Step(S, i, cur), i)

\* AsyncThunk.done(), the simple pipeline: the same loop, returning the
\* last step's promise
RECURSIVE RunSimple(_, _, _)
RunSimpleNext(r, i) == IF r.out = "throw" THEN r ELSE RunSimple(r.S, i + 1, r.v)
RunSimple(S, i, cur) ==
    IF i > Len(steps) THEN Ret(S, cur) ELSE RunSimpleNext(Step(S, i, cur), i)

UsageError == Val("Error", 0, "AsyncThunk: pipe callback returned a promise; try pipeAwait instead")

\* typeof current?.then === "function"
IsThenable(v) == v.t = "Promise"

FrameDone(S) == [S EXCEPT !.fr.pc = "done"]

\* mutant: the final value is returned without the check
FinishUnchecked(S, cur) == FrameDone(ResolveP(S, S.fr.P, cur))

\* the end of the async function: the check of the final value, then return
Finish(S, cur) ==
    IF IsThenable(cur)
    THEN FrameDone(Settle(S, S.fr.P, FALSE, UsageError))
    ELSE FrameDone(ResolveP(S, S.fr.P, cur))

\* mutant: the function goes on in the next job, whatever the promise's state
SuspendWithoutWaiting(S, i, v) ==
    [Enq(S, Job(Reaction("resumeFn", S.fr.P, Num(i)), TRUE, v))
        EXCEPT !.fr.pc = "suspended", !.fr.i = i]

\* await f(current): the function is suspended on the promise of step i; the
\* reaction holds what it goes on with, its promise P and its position i
Suspend(S, i, v) ==
    [AwaitV(S, v, Reaction("resumeFn", S.fr.P, Num(i))) EXCEPT !.fr.pc = "suspended", !.fr.i = i]

RECURSIVE AsyncBody(_, _, _)
\* mutant: an asynchronous step is not awaited, its promise is handed on
AdvanceNoAwait(r, i) ==
    IF r.out = "throw" THEN FrameDone(Settle(r.S, r.S.fr.P, FALSE, r.v))
    ELSE AsyncBody(r.S, i + 1, r.v)

\* current = isAsync ? await f(current) : f(current)
Advance(r, i) ==
    IF r.out = "throw" THEN FrameDone(Settle(r.S, r.S.fr.P, FALSE, r.v))
    ELSE IF steps[i].isAsync THEN Suspend(r.S, i, r.v)
    ELSE AsyncBody(r.S, i + 1, r.v)

\* The async function of AsyncThunk.done(), from step i on, up to its next
\* await or its end.
AsyncBody(S, i, cur) ==
    IF i > Len(steps) THEN Finish(S, cur) ELSE Advance(Step(S, i, cur), i)

\* mutant: the check that every earlier step is synchronous is left out
isSimplePipelineLastOnly == Len(steps) >= 1 /\ steps[Len(steps)].isAsync

isSimplePipeline ==
    /\ Len(steps) >= 1
    /\ steps[Len(steps)].isAsync
    /\ \A k \in 1..(Len(steps) - 1) : ~steps[k].isAsync

\* mutant: done() always runs the steps in the async function
AsyncDoneAlwaysWrapped(S) ==
    Ret(AsyncBody([NewP(S, "pending", Undef, FALSE) EXCEPT !.fr.P = Len(S.ps) + 1],
                  1, Undef),
        Prom(Len(S.ps) + 1))

\* AsyncThunk.done()
AsyncDone(S) ==
    IF isSimplePipeline
    THEN RunSimple(S, 1, Undef)
    ELSE Ret(AsyncBody([NewP(S, "pending", Undef, FALSE) EXCEPT !.fr.P = Len(S.ps) + 1],
                       1, Undef),
             Prom(Len(S.ps) + 1))

\* ---------------------------------------------------------------- state

Machine == [ps |-> ps, q |-> queue, tr |-> trace, fr |-> frame]

SetMachine(S) ==
    /\ ps' = S.ps
    /\ queue' = S.q
    /\ trace' = S.tr
    /\ frame' = S.fr

NoChain == [id |-> 0, type |-> "none", v |-> Undef]

TryIdle ==
    /\ tphase = "start"
    /\ tchain = NoChain
    /\ tprev = NoChain
    /\ tlast = <<>>
    /\ tout = Undef
    /\ tlog = <<>>
    /\ tnew = 0

InitDo ==
    /\ TryIdle
    /\ cls = "none"
    /\ steps = <<>>
    /\ chains = <<>>
    /\ ps = <<>>
    /\ queue = <<CounterJob>>
    /\ trace = <<>>
    /\ counter = [count |-> 0, fin |-> FALSE]
    /\ frame = [pc |-> "none", i |-> 0, P |-> 0]
    /\ caller = [pc |-> "building", ok |-> TRUE, v |-> Undef, at |-> 0, fin |-> FALSE]

\* ---------------------------------------------------------------- builders

Building == caller.pc = "building"
CanAppend == Building /\ Len(steps) < MaxSteps + 1 /\ Len(chains) < MaxChains

\* new Thunk([...this._steps, [false, f]]) and its AsyncThunk likes
Appended(isAsync, f) == Append(steps, [isAsync |-> isAsync, f |-> f])

\* mutant: the step is pushed onto the receiver's own _steps, which the new
\* chain then shares
NewChainPushing(c, s) ==
    /\ cls' = c
    /\ steps' = s
    /\ chains' = Append([j \in 1..Len(chains) |->
                            IF chains[j] = [cls |-> cls, steps |-> steps]
                            THEN [cls |-> chains[j].cls, steps |-> s] ELSE chains[j]],
                        [cls |-> c, steps |-> s])
    /\ UNCHANGED <<ps, queue, trace, counter, frame, caller, tryvars>>

\* the constructor: a new chain object holding the array it is given
NewChain(c, s) ==
    /\ cls' = c
    /\ steps' = s
    /\ chains' = Append(chains, [cls |-> c, steps |-> s])
    /\ UNCHANGED <<ps, queue, trace, counter, frame, caller, tryvars>>

Do(value) ==
    /\ Building /\ cls = "none"
    /\ NewChain("Thunk", <<[isAsync |-> FALSE, f |-> Fn("seed", "value", <<value>>)]>>)

\* mutant: pipe calls the callback at once
ThunkPipeToEager(f) ==
    /\ cls' = "Thunk"
    /\ steps' = Appended(FALSE, f)
    /\ chains' = Append(chains, [cls |-> "Thunk", steps |-> Appended(FALSE, f)])
    /\ trace' = Append(trace, Event("call", Len(steps) + 1, Undef, "none"))
    /\ UNCHANGED <<ps, queue, counter, frame, caller, tryvars>>

ThunkPipeTo(f) == NewChain("Thunk", Appended(FALSE, f))
ThunkPipeAwaitTo(f) == NewChain("AsyncThunk", Appended(TRUE, f))
AsyncPipeTo(f) == NewChain("AsyncThunk", Appended(FALSE, f))
AsyncPipeAwaitTo(f) == NewChain("AsyncThunk", Appended(TRUE, f))

ThunkPipe == \E b \in SyncBodies :
    cls = "Thunk" /\ CanAppend /\ ThunkPipeTo(Fn("plain", b, <<>>))
ThunkPipeAwait == \E b \in AsyncBodies :
    cls = "Thunk" /\ CanAppend /\ ThunkPipeAwaitTo(Fn("plain", b, <<>>))
ThunkRcall == \E c \in RcallChoices :
    cls = "Thunk" /\ CanAppend /\ ThunkPipeTo(Fn("rcall", c[1], c[2]))
ThunkRcallAwait == \E c \in RcallAwaitChoices :
    cls = "Thunk" /\ CanAppend /\ ThunkPipeAwaitTo(Fn("rcall", c[1], c[2]))
ThunkTap == \E b \in TapBodies :
    cls = "Thunk" /\ CanAppend /\ ThunkPipeTo(Fn("tap", b, <<>>))
ThunkTapAwait == \E b \in TapAwaitBodies :
    cls = "Thunk" /\ CanAppend /\ ThunkPipeAwaitTo(Fn("tapAwait", b, <<>>))

AsyncPipe == \E b \in SyncBodies :
    cls = "AsyncThunk" /\ CanAppend /\ AsyncPipeTo(Fn("plain", b, <<>>))
AsyncPipeAwait == \E b \in AsyncBodies :
    cls = "AsyncThunk" /\ CanAppend /\ AsyncPipeAwaitTo(Fn("plain", b, <<>>))
AsyncRcall == \E c \in RcallChoices :
    cls = "AsyncThunk" /\ CanAppend /\ AsyncPipeTo(Fn("rcall", c[1], c[2]))
AsyncRcallAwait == \E c \in RcallAwaitChoices :
    cls = "AsyncThunk" /\ CanAppend /\ AsyncPipeAwaitTo(Fn("rcall", c[1], c[2]))
AsyncTap == \E b \in TapBodies :
    cls = "AsyncThunk" /\ CanAppend /\ AsyncPipeTo(Fn("tap", b, <<>>))
AsyncTapAwait == \E b \in TapAwaitBodies :
    cls = "AsyncThunk" /\ CanAppend /\ AsyncPipeAwaitTo(Fn("tapAwait", b, <<>>))

\* ---------------------------------------------------------------- done()

Finished(pc, ok, v) ==
    [pc |-> pc, ok |-> ok, v |-> v, at |-> counter.count, fin |-> counter.fin]

\* const result = thunk.done()
ThunkDoneResult(r) ==
    /\ SetMachine(r.S)
    /\ caller' = Finished(IF r.out = "ret" THEN "returned" ELSE "threw", r.out = "ret", r.v)

ThunkDone ==
    /\ Building /\ cls = "Thunk"
    /\ ThunkDoneResult(RunSync(Machine, 1, Undef))
    /\ UNCHANGED <<cls, steps, chains, counter, tryvars>>

\* const result = await asyncThunk.done()
AsyncThunkDoneResult(r) ==
    IF r.out = "throw"
    THEN /\ SetMachine(r.S)
         /\ caller' = Finished("threw", FALSE, r.v)
    ELSE /\ SetMachine(AwaitV(r.S, r.v, Reaction("resumeCaller", 0, Undef)))
         /\ caller' = [caller EXCEPT !.pc = "awaiting", !.v = r.v]

AsyncThunkDone ==
    /\ Building /\ cls = "AsyncThunk"
    /\ AsyncThunkDoneResult(AsyncDone(Machine))
    /\ UNCHANGED <<cls, steps, chains, counter, tryvars>>

\* ---------------------------------------------------------------- jobs

\* for (let i = 0; i <= maxCount; i++) { this._count = i; await null }
\* this._count = Infinity
CounterTick(S) ==
    IF counter.count + 1 <= MaxCount
    THEN /\ counter' = [counter EXCEPT !.count = @ + 1]
         /\ SetMachine(Enq(S, CounterJob))
    ELSE /\ counter' = [counter EXCEPT !.fin = TRUE]
         /\ SetMachine(S)

\* the frame an execution of done() was suspended with
Resumed(S, job) == [S EXCEPT !.fr = [pc |-> "running", i |-> job.cv.n, P |-> job.d]]

\* mutant: the position and the promise are kept in the chain object, so
\* every execution goes on with those of the execution started last
ResumeFnSharedFrame(S, job) ==
    IF job.ok THEN AsyncBody(S, S.fr.i + 1, job.v)
    ELSE FrameDone(Settle(S, S.fr.P, FALSE, job.v))

\* mutant: a rejection of the awaited promise is swallowed, and the loop goes
\* on with undefined
ResumeFnContinuing(S, job) ==
    AsyncBody(Resumed(S, job), job.cv.n + 1, IF job.ok THEN job.v ELSE Undef)

\* the async function of done() goes on after its await, with its own frame
ResumeFn(S, job) ==
    IF job.ok THEN AsyncBody(Resumed(S, job), job.cv.n + 1, job.v)
    ELSE FrameDone(Settle(Resumed(S, job), job.d, FALSE, job.v))

\* the reaction of `.then(() => value)`
ConstThen(S, job) ==
    IF job.ok THEN ResolveP(S, job.d, job.cv)
    ELSE Settle(S, job.d, FALSE, job.v)

\* the resolving functions of promise d, given to a thenable's then
Forward(S, job) ==
    IF job.ok THEN ResolveP(S, job.d, job.v)
    ELSE Settle(S, job.d, FALSE, job.v)

\* NewPromiseResolveThenableJob
AdoptThenable(S, job) == PerformThen(S, job.cv.n, Reaction("forward", job.d, Undef))

\* The host runs the job at the head of the microtask queue.
RunMicrotask ==
    /\ ~Building
    /\ queue # <<>>
    /\ Head(queue).k # "resumeTry"
    /\ LET job == Head(queue)
           S == [Machine EXCEPT !.q = Tail(queue)]
       IN  CASE job.k = "counter" -> CounterTick(S) /\ UNCHANGED caller
             [] job.k = "resumeCaller" ->
                  /\ caller' = Finished("resumed", job.ok, job.v)
                  /\ SetMachine(S)
                  /\ UNCHANGED counter
             [] job.k = "resumeFn" -> SetMachine(ResumeFn(S, job)) /\ UNCHANGED <<caller, counter>>
             [] job.k = "constThen" -> SetMachine(ConstThen(S, job)) /\ UNCHANGED <<caller, counter>>
             [] job.k = "forward" -> SetMachine(Forward(S, job)) /\ UNCHANGED <<caller, counter>>
             [] job.k = "thenable" -> SetMachine(AdoptThenable(S, job)) /\ UNCHANGED <<caller, counter>>
    /\ UNCHANGED <<cls, steps, chains, tryvars>>

\* A later task of the host settles a promise a callback left pending.
TimerFires == \E p \in 1..Len(ps) :
    /\ ~Building
    /\ queue = <<>>
    /\ ps[p].s = "pending" /\ ps[p].timer
    /\ SetMachine(Settle(Machine, p, TRUE, ps[p].v))
    /\ UNCHANGED <<cls, steps, chains, counter, caller, tryvars>>

NextDo ==
    \/ \E value \in Seeds : Do(value)
    \/ ThunkPipe \/ ThunkPipeAwait \/ ThunkRcall \/ ThunkRcallAwait \/ ThunkTap \/ ThunkTapAwait
    \/ AsyncPipe \/ AsyncPipeAwait \/ AsyncRcall \/ AsyncRcallAwait \/ AsyncTap \/ AsyncTapAwait
    \/ ThunkDone \/ AsyncThunkDone
    \/ RunMicrotask
    \/ TimerFires

Spec == InitDo /\ [][NextDo]_vars

\* ---------------------------------------------------------------- done() again

\* Further calls of done() on the chain, after the first.
MaxRedo == 2

DoneCalls == Cardinality({k \in 1..Len(trace) : trace[k].e \in {"done", "doneThrew"}})
CanRedo == ~Building /\ DoneCalls < MaxRedo

\* thunk.done() called once more; what it returns or raises is recorded
Redone(r) ==
    /\ SetMachine([r.S EXCEPT !.tr = Append(@, Event(IF r.out = "ret" THEN "done" ELSE "doneThrew",
                                                     0, r.v, "none"))])
    /\ UNCHANGED <<cls, steps, chains, counter, caller, tryvars>>

ThunkDoneAgain ==
    /\ cls = "Thunk" /\ CanRedo
    /\ Redone(RunSync(Machine, 1, Undef))

\* asyncThunk.done() called once more, whatever the earlier executions are at
AsyncThunkDoneAgain ==
    /\ cls = "AsyncThunk" /\ CanRedo
    /\ Redone(AsyncDone(Machine))

InitRedo ==
    /\ TryIdle
    /\ cls = "none"
    /\ steps = <<>>
    /\ chains = <<>>
    /\ ps = <<>>
    /\ queue = <<>>
    /\ trace = <<>>
    /\ counter = [count |-> 0, fin |-> FALSE]
    /\ frame = [pc |-> "none", i |-> 0, P |-> 0]
    /\ caller = [pc |-> "building", ok |-> TRUE, v |-> Undef, at |-> 0, fin |-> FALSE]

NextRedo ==
    \/ \E value \in Seeds : Do(value)
    \/ ThunkPipe \/ ThunkPipeAwait \/ AsyncPipe \/ AsyncPipeAwait
    \/ ThunkDone \/ AsyncThunkDone
    \/ ThunkDoneAgain \/ AsyncThunkDoneAgain
    \/ RunMicrotask
    \/ TimerFires

SpecRedo == InitRedo /\ [][NextRedo]_vars

\* ---------------------------------------------------------------- chains kept

\* The caller goes on with a chain object it has kept, the receiver of an
\* earlier call.
TakeKept == \E j \in 1..Len(chains) :
    /\ Building
    /\ chains[j] # [cls |-> cls, steps |-> steps]
    /\ cls' = chains[j].cls
    /\ steps' = chains[j].steps
    /\ UNCHANGED <<chains, ps, queue, trace, counter, frame, caller, tryvars>>

NextKept ==
    \/ \E value \in Seeds : Do(value)
    \/ ThunkPipe \/ ThunkRcallAwait \/ ThunkTap
    \/ AsyncPipeAwait \/ AsyncRcall \/ AsyncTapAwait
    \/ TakeKept
    \/ ThunkDone \/ AsyncThunkDone
    \/ RunMicrotask
    \/ TimerFires

SpecKept == InitRedo /\ [][NextKept]_vars

\* ---------------------------------------------------------------- errors and predicates

\* Chained methods of a TryChain before done().
MaxOps == 2

\* class C extends Parent(C); "Plain" is a class that extends nothing
Parent(c) ==
    CASE c = "TypeError" -> "Error"
      [] c = "DemoError" -> "Error"
      [] c = "ChildError" -> "DemoError"
      [] c \in {"Error", "Plain", "Promise"} -> "Object"
      [] OTHER -> "null"

IsObject(v) == v.t \in {"Object", "Error", "TypeError", "DemoError", "ChildError", "Plain", "Promise"}

RECURSIVE Inherits(_, _)
Inherits(c, C) == c # "null" /\ (c = C \/ Inherits(Parent(c), C))

\* mutant: only direct instances count
InstanceOfExactly(v, C) == IsObject(v) /\ v.t = C

\* v instanceof C
InstanceOf(v, C) == IsObject(v) /\ Inherits(v.t, C)

Bool(b) == Val("boolean", IF b THEN 1 ELSE 0, "")

\* ToBoolean
Truthy(v) ==
    CASE v.t \in {"undefined", "NaN", "null"} -> FALSE
      [] v.t \in {"boolean", "number"} -> v.n # 0
      [] v.t = "string" -> v.m # ""
      [] OTHER -> TRUE

\* An ErrorPredicate, or another value given in its place.
Ctor(c) == [k |-> "ctor", c |-> c, b |-> "", items |-> <<>>]
ArrowFn(b) == [k |-> "arrow", c |-> "", b |-> b, items |-> <<>>]
ClassicFn(b) == [k |-> "function", c |-> "", b |-> b, items |-> <<>>]
ListOf(items) == [k |-> "list", c |-> "", b |-> "", items |-> items]
NotAPredicate(c) == [k |-> "invalid", c |-> c, b |-> "", items |-> <<>>]

\* The errors of the engine and of isErrorOf itself.
NotConstructible == Val("TypeError", 0, "Class constructor cannot be invoked without 'new'")
NoPrototypeOf == Val("TypeError", 0, "Cannot convert undefined or null to object")
InvalidPredicate == Val("Error", 0, "Invalid predicate")

\* A result of a call: [out, v, log], log being the user's callbacks invoked.
Gives(v, log) == [out |-> "ret", v |-> v, log |-> log]
Raises(e, log) == [out |-> "throw", v |-> e, log |-> log]
Invoked(log, role, fn, arg) == Append(log, [role |-> role, fn |-> fn, arg |-> arg])

\* the classifier functions of the user: their bodies
Classify(b, e) ==
    CASE b = "isTypeError" -> Bool(InstanceOf(e, "TypeError"))
      [] b = "isString" -> Bool(e.t = "string")
      [] OTHER -> Bool(FALSE)

\* typeof pred === "function"
IsFunction(pred) == pred.k \in {"ctor", "arrow", "function"}

\* pred.prototype instanceof Error
PrototypeIsError(pred) == pred.k = "ctor" /\ pred.c # "Error" /\ Inherits(pred.c, "Error")

\* Object.getPrototypeOf(pred.prototype) !== Object.prototype, where it is
\* evaluated: an arrow function has no prototype, and getPrototypeOf raises
PrototypeExtends(pred) ==
    CASE pred.k = "ctor" -> Gives(Bool(Parent(pred.c) # "Object"), <<>>)
      [] pred.k = "function" -> Gives(Bool(FALSE), <<>>)
      [] pred.k = "arrow" -> Raises(NoPrototypeOf, <<>>)

\* pred(e): a built-in error constructor called as a function makes an error,
\* a class raises, a function is the user's
CallAsFunction(pred, e, log) ==
    CASE pred.k = "ctor" /\ pred.c \in {"Error", "TypeError"} -> Gives(Val(pred.c, 0, "made by call"), log)
      [] pred.k = "ctor" -> Raises(NotConstructible, log)
      [] OTHER -> Gives(Classify(pred.b, e), Invoked(log, "pred", pred.b, e))

\* the function branch of isErrorOf
TestFunction(e, pred, log) ==
    IF PrototypeIsError(pred) THEN Gives(Bool(InstanceOf(e, pred.c)), log)
    ELSE IF PrototypeExtends(pred).out = "throw" THEN Raises(PrototypeExtends(pred).v, log)
    ELSE IF Truthy(PrototypeExtends(pred).v) THEN Gives(Bool(InstanceOf(e, pred.c)), log)
    ELSE CallAsFunction(pred, e, log)

RECURSIVE isErrorOf(_, _, _)
RECURSIVE SomeMatches(_, _, _, _)

\* mutant: some() goes on after an element has matched
SomeNextEvaluatingAll(r, e, items, i) ==
    IF r.out = "throw" THEN r
    ELSE IF Truthy(r.v) THEN Gives(Bool(TRUE), SomeMatches(e, items, i + 1, r.log).log)
    ELSE SomeMatches(e, items, i + 1, r.log)

\* pred.some((p) => isErrorOf(e, p)), from element i on
SomeNext(r, e, items, i) ==
    IF r.out = "throw" THEN r
    ELSE IF Truthy(r.v) THEN Gives(Bool(TRUE), r.log)
    ELSE SomeMatches(e, items, i + 1, r.log)

SomeMatches(e, items, i, log) ==
    IF i > Len(items) THEN Gives(Bool(FALSE), log)
    ELSE SomeNext(isErrorOf(e, items[i], log), e, items, i)

\* mutant: a value that is no predicate matches nothing
isErrorOfLenient(e, pred, log) ==
    IF IsFunction(pred) THEN TestFunction(e, pred, log)
    ELSE IF pred.k = "list" THEN SomeMatches(e, pred.items, 1, log)
    ELSE Gives(Bool(FALSE), log)

isErrorOf(e, pred, log) ==
    IF IsFunction(pred) THEN TestFunction(e, pred, log)
    ELSE IF pred.k = "list" THEN SomeMatches(e, pred.items, 1, log)
    ELSE Raises(InvalidPredicate, log)

\* ---------------------------------------------------------------- TryChain

\* what the user's functions do: the f of Try(f)
Thrown == {Val("Error", 1, "u"), Val("TypeError", 2, "u"), Val("DemoError", 3, "u"),
           Val("ChildError", 4, "u"), Val("Plain", 5, "u"), Val("Object", 6, ""),
           Str("oops")}
Returned42 == {Num(42), Undef}
UserFns == [k : {"ret"}, v : Returned42] \cup [k : {"throw"}, v : Thrown]

SecondErr == Val("Error", 9, "second")
Fallback == Num(7)

\* the callbacks given to map, tap, case and done
CallUser(role, fn, arg, log) ==
    CASE fn = "const" -> Gives(Fallback, Invoked(log, role, fn, arg))
      [] fn = "echo" -> Gives(arg, Invoked(log, role, fn, arg))
      [] fn = "inc" -> Gives(Plus(arg, Num(1)), Invoked(log, role, fn, arg))
      [] fn = "log" -> Gives(Undef, Invoked(log, role, fn, arg))
      [] fn = "throw2" -> Raises(SecondErr, Invoked(log, role, fn, arg))

Preds ==
    {Ctor(c) : c \in {"Error", "TypeError", "DemoError", "ChildError", "Plain"}}
    \cup {ClassicFn("isTypeError"), ArrowFn("isTypeError")}
    \cup {ListOf(<<Ctor("TypeError"), ClassicFn("isString")>>), ListOf(<<>>)}
    \cup {ListOf(<<ClassicFn("isString"), ListOf(<<Ctor("DemoError"), ClassicFn("isTypeError")>>)>>)}
    \cup {NotAPredicate("null")}

\* values that are neither functions nor arrays
Invalids == {NotAPredicate(c) : c \in {"null", "string", "object"}}

Ok(v) == [type |-> "Ok", v |-> v]
Err(e) == [type |-> "Err", v |-> e]

\* A result of a method: [out, chain, v, log, new]: the chain returned or the
\* value returned or raised, and the number of TryChain objects made.
Chain(id, result) == [id |-> id, type |-> result.type, v |-> result.v]
NewTryChain(result, log, new) ==
    [out |-> "chain", chain |-> Chain(new + 1, result), v |-> Undef, log |-> log, new |-> new + 1]
This(this, log, new) == [out |-> "chain", chain |-> this, v |-> Undef, log |-> log, new |-> new]
Value(v, log, new) == [out |-> "value", chain |-> NoChain, v |-> v, log |-> log, new |-> new]
Raise(e, log, new) == [out |-> "raised", chain |-> NoChain, v |-> e, log |-> log, new |-> new]

\* mutant: Try lets the error through
TryUncaught(f, log, new) ==
    IF f.k = "throw" THEN Raise(f.v, Invoked(log, "f", f.k, Undef), new)
    ELSE NewTryChain(Ok(f.v), Invoked(log, "f", f.k, Undef), new)

\* Try(f)
Try(f, log, new) ==
    IF f.k = "throw" THEN NewTryChain(Err(f.v), Invoked(log, "f", f.k, Undef), new)
    ELSE NewTryChain(Ok(f.v), Invoked(log, "f", f.k, Undef), new)

\* mutant: map catches what f raises and returns a chain holding Err
MapCatching(this, fn, log, new) ==
    IF this.type = "Ok" /\ CallUser("map", fn, this.v, log).out = "throw"
    THEN NewTryChain(Err(CallUser("map", fn, this.v, log).v), CallUser("map", fn, this.v, log).log, new)
    ELSE IF this.type = "Ok"
    THEN NewTryChain(Ok(CallUser("map", fn, this.v, log).v), CallUser("map", fn, this.v, log).log, new)
    ELSE NewTryChain(Err(this.v), log, new)

\* map(f)
MapReturn(r, new) ==
    IF r.out = "throw" THEN Raise(r.v, r.log, new) ELSE NewTryChain(Ok(r.v), r.log, new)
Map(this, fn, log, new) ==
    IF this.type = "Ok" THEN MapReturn(CallUser("map", fn, this.v, log), new)
    ELSE NewTryChain(Err(this.v), log, new)

\* case(pred, f)
CaseReturn(r, new) ==
    IF r.out = "throw" THEN Raise(r.v, r.log, new + 1) ELSE NewTryChain(Ok(r.v), r.log, new + 1)
\* mutant: case invokes the handler whatever the predicate returns
CaseMatchedAlways(m, this, fn, new) ==
    IF m.out = "throw" THEN Raise(m.v, m.log, new)
    ELSE CaseReturn(CallUser("handler", fn, this.v, m.log), new)

CaseMatched(m, this, fn, new) ==
    IF m.out = "throw" THEN Raise(m.v, m.log, new)
    ELSE IF Truthy(m.v) THEN CaseReturn(CallUser("handler", fn, this.v, m.log), new)
    ELSE This(this, m.log, new)
Case(this, pred, fn, log, new) ==
    IF this.type = "Ok" THEN This(this, log, new)
    ELSE CaseMatched(isErrorOf(this.v, pred, log), this, fn, new)

\* mutant: pick lets an unmatched error through
PickMatchedAlways(m, this, new) ==
    IF m.out = "throw" THEN Raise(m.v, m.log, new)
    ELSE NewTryChain(Err(this.v), m.log, new)

\* pick(pred)
PickMatched(m, this, new) ==
    IF m.out = "throw" THEN Raise(m.v, m.log, new)
    ELSE IF Truthy(m.v) THEN NewTryChain(Err(this.v), m.log, new)
    ELSE Raise(this.v, m.log, new)
Pick(this, pred, log, new) ==
    IF this.type = "Ok" THEN NewTryChain(Ok(this.v), log, new)
    ELSE PickMatched(isErrorOf(this.v, pred, log), this, new)

\* mutant: tap hands on a chain holding an error that wraps the captured one
TapRewrapping(this, fn, log, new) ==
    IF this.type = "Err" /\ CallUser("tap", fn, this.v, log).out = "ret"
    THEN NewTryChain(Err(Val("Error", 8, "wrapped")), CallUser("tap", fn, this.v, log).log, new)
    ELSE IF this.type = "Err" THEN Raise(CallUser("tap", fn, this.v, log).v, CallUser("tap", fn, this.v, log).log, new)
    ELSE This(this, log, new)

\* tap(f)
TapReturn(r, this, new) ==
    IF r.out = "throw" THEN Raise(r.v, r.log, new) ELSE This(this, r.log, new)
TapErr(this, fn, log, new) ==
    IF this.type = "Err" THEN TapReturn(CallUser("tap", fn, this.v, log), this, new)
    ELSE This(this, log, new)

\* mutant: done() gives undefined for an error it has no fallback for
DoneSwallowing(this, fn, log, new) ==
    IF this.type = "Ok" THEN Value(this.v, log, new)
    ELSE IF fn # "none" THEN Value(CallUser("fallback", fn, this.v, log).v, CallUser("fallback", fn, this.v, log).log, new)
    ELSE Value(Undef, log, new)

\* done(fallback?)
DoneReturn(r, new) ==
    IF r.out = "throw" THEN Raise(r.v, r.log, new) ELSE Value(r.v, r.log, new)
Done(this, fn, log, new) ==
    IF this.type = "Ok" THEN Value(this.v, log, new)
    ELSE IF fn # "none" THEN DoneReturn(CallUser("fallback", fn, this.v, log), new)
    ELSE Raise(this.v, log, new)

\* The expression goes on with the result r of the call c made on tchain.
Goes(c, r) ==
    /\ tphase' = IF r.out = "chain" THEN "chain" ELSE r.out
    /\ tchain' = r.chain
    /\ tprev' = tchain
    /\ tlast' = Append(tlast, c)
    /\ tout' = r.v
    /\ tlog' = r.log
    /\ tnew' = r.new
    /\ UNCHANGED dovars

Call(op, pred, fn, arg) == [op |-> op, pred |-> pred, fn |-> fn, arg |-> arg]
NoPred == NotAPredicate("none")
Chaining == tphase = "chain" /\ Len(tlast) < MaxOps + 1

TryCall == \E f \in UserFns :
    /\ tphase = "start"
    /\ Goes(Call("Try", NoPred, f.k, f.v), Try(f, tlog, tnew))

MapCall == \E fn \in {"inc", "throw2"} :
    /\ Chaining
    /\ Goes(Call("map", NoPred, fn, Undef), Map(tchain, fn, tlog, tnew))

CaseCall == \E pred \in Preds, fn \in {"const", "throw2"} :
    /\ Chaining
    /\ Goes(Call("case", pred, fn, Undef), Case(tchain, pred, fn, tlog, tnew))

PickCall == \E pred \in Preds :
    /\ Chaining
    /\ Goes(Call("pick", pred, "none", Undef), Pick(tchain, pred, tlog, tnew))

TapCall == \E fn \in {"log", "throw2"} :
    /\ Chaining
    /\ Goes(Call("tap", NoPred, fn, Undef), TapErr(tchain, fn, tlog, tnew))

DoneCall == \E fn \in {"none", "const", "echo", "throw2"} :
    /\ tphase = "chain"
    /\ Goes(Call("done", NoPred, fn, Undef), Done(tchain, fn, tlog, tnew))

\* isErrorOf(e, pred), called by the user
IsErrorOfResult(r) ==
    IF r.out = "throw" THEN Raise(r.v, r.log, tnew) ELSE Value(r.v, r.log, tnew)
IsErrorOfCall == \E e \in Thrown, pred \in Preds \cup Invalids :
    /\ tphase = "start"
    /\ Goes(Call("isErrorOf", pred, "none", e), IsErrorOfResult(isErrorOf(e, pred, tlog)))

InitTry ==
    /\ TryIdle
    /\ cls = "none"
    /\ steps = <<>>
    /\ chains = <<>>
    /\ ps = <<>>
    /\ queue = <<>>
    /\ trace = <<>>
    /\ counter = [count |-> 0, fin |-> FALSE]
    /\ frame = [pc |-> "none", i |-> 0, P |-> 0]
    /\ caller = [pc |-> "building", ok |-> TRUE, v |-> Undef, at |-> 0, fin |-> FALSE]

NextTry == TryCall \/ MapCall \/ CaseCall \/ PickCall \/ TapCall \/ DoneCall \/ IsErrorOfCall

SpecTry == InitTry /\ [][NextTry]_vars

\* ---------------------------------------------------------------- TryAsync

\* what the f of TryAsync(f) does: it returns a promise that is fulfilled,
\* rejected or still pending, or raises before it returns one
AsyncFns == [k : {"resolve", "pending"}, v : Returned42] \cup [k : {"reject", "throw"}, v : Thrown]

CallAsyncUser(S, f) ==
    CASE f.k = "resolve" -> RetNewP(S, "fulfilled", f.v, FALSE)
      [] f.k = "pending" -> RetNewP(S, "pending", f.v, TRUE)
      [] f.k = "reject" -> RetNewP(S, "rejected", f.v, FALSE)
      [] f.k = "throw" -> Throw(S, f.v)

\* a TryChain object as a value a promise is fulfilled with
ChainValue(c) == Val("TryChain", c.id, c.type)

\* return new TryChain(result): the promise of the async function is resolved
TryAsyncReturn(S, result, new) ==
    [S |-> FrameDone(ResolveP(S, S.fr.P, ChainValue(Chain(new + 1, result)))),
     phase |-> "chain", chain |-> Chain(new + 1, result), new |-> new + 1]

\* try { value = await f() } catch (error) { ... }: after the call of f
TryAsyncAwait(r, new) ==
    IF r.out = "throw" THEN TryAsyncReturn(r.S, Err(r.v), new)
    ELSE [S |-> [AwaitV(r.S, r.v, Reaction("resumeTry", 0, Undef)) EXCEPT !.fr.pc = "suspended"],
          phase |-> "async", chain |-> NoChain, new |-> new]

\* TryAsync(f), up to its await or its end
TryAsync(S, f, new) ==
    TryAsyncAwait(CallAsyncUser([NewP(S, "pending", Undef, FALSE) EXCEPT !.fr.P = Len(S.ps) + 1], f),
                  new)

\* mutant: a rejection of f's promise rejects the promise of TryAsync
ResumeTryRejecting(S, job, new) ==
    IF job.ok THEN TryAsyncReturn(S, Ok(job.v), new)
    ELSE [S |-> FrameDone(Settle(S, S.fr.P, FALSE, job.v)),
          phase |-> "raised", chain |-> NoChain, new |-> new]

\* TryAsync(f) goes on after its await: the value, or the catch clause
ResumeTry(S, job, new) ==
    IF job.ok THEN TryAsyncReturn(S, Ok(job.v), new)
    ELSE TryAsyncReturn(S, Err(job.v), new)

\* const chain = await TryAsync(f)
TryAsyncCalled(f, x) ==
    /\ SetMachine(AwaitV(x.S, Prom(x.S.fr.P), Reaction("resumeCaller", 0, Undef)))
    /\ caller' = [caller EXCEPT !.pc = "awaiting", !.v = Prom(x.S.fr.P)]
    /\ tphase' = x.phase
    /\ tchain' = x.chain
    /\ tnew' = x.new
    /\ tlast' = Append(tlast, Call("TryAsync", NoPred, f.k, f.v))
    /\ tlog' = Invoked(tlog, "f", f.k, Undef)
    /\ UNCHANGED <<cls, steps, chains, counter, tprev, tout>>

TryAsyncCall == \E f \in AsyncFns :
    /\ Building /\ cls = "none" /\ tphase = "start"
    /\ TryAsyncCalled(f, TryAsync(Machine, f, tnew))

ResumedTry(x) ==
    /\ SetMachine(x.S)
    /\ tphase' = x.phase
    /\ tchain' = x.chain
    /\ tnew' = x.new
    /\ UNCHANGED <<cls, steps, chains, counter, caller, tprev, tlast, tout, tlog>>

\* The host runs the job that resumes TryAsync.
ResumeTryAsync ==
    /\ ~Building
    /\ queue # <<>>
    /\ Head(queue).k = "resumeTry"
    /\ ResumedTry(ResumeTry([Machine EXCEPT !.q = Tail(queue)], Head(queue), tnew))

\* A later task of the host rejects a promise a callback left pending.
TimerRejects == \E p \in 1..Len(ps) :
    /\ ~Building
    /\ queue = <<>>
    /\ ps[p].s = "pending" /\ ps[p].timer
    /\ SetMachine(Settle(Machine, p, FALSE, UserErr))
    /\ UNCHANGED <<cls, steps, chains, counter, caller, tryvars>>

NextTryAsync == TryAsyncCall \/ ResumeTryAsync \/ RunMicrotask \/ TimerFires \/ TimerRejects

SpecTryAsync == InitDo /\ [][NextTryAsync]_vars

\* ---------------------------------------------------------------- failing steps

\* The chains of Spec, with promises that a later task of the host rejects.
NextFail ==
    \/ \E value \in Seeds : Do(value)
    \/ ThunkPipe \/ ThunkPipeAwait \/ ThunkRcall \/ ThunkRcallAwait \/ ThunkTap \/ ThunkTapAwait
    \/ AsyncPipe \/ AsyncPipeAwait \/ AsyncRcall \/ AsyncRcallAwait \/ AsyncTap \/ AsyncTapAwait
    \/ ThunkDone \/ AsyncThunkDone
    \/ RunMicrotask
    \/ TimerFires
    \/ TimerRejects

SpecFail == InitDo /\ [][NextFail]_vars

\* ---------------------------------------------------------------- properties

CallerDone == caller.pc \in {"returned", "resumed", "threw"}
LastStep == steps[Len(steps)]
AsyncStepsOf == {k \in 1..Len(steps) : steps[k].isAsync}
NAsync == Cardinality(AsyncStepsOf)
OnlyLastAsync == AsyncStepsOf = {Len(steps)}
BodiesIn(B) == \A k \in 2..Len(steps) : steps[k].f.b \in B
NoRaiseChain == \A k \in 2..Len(steps) : steps[k].f.b \notin {"throw", "rej"}

\* Do(v), then pipe steps that return, and pipeAwait steps that return an
\* already-resolved native promise
ResolvedPipeChain ==
    /\ Len(steps) >= 1
    /\ \A k \in 2..Len(steps) :
        /\ steps[k].f.w = "plain"
        /\ steps[k].isAsync => steps[k].f.b = "resInc"
        /\ ~steps[k].isAsync => steps[k].f.b \in {"inc", "dbl", "mkp"}

TicksByRule == IF cls = "Thunk" THEN 0 ELSE IF OnlyLastAsync THEN 1 ELSE 1 + NAsync

\* the three-step table of the tests, by the isAsync flags of the three steps
TicksByTable(a, b, c) ==
    CASE <<a, b, c>> = <<FALSE, FALSE, FALSE>> -> 0
      [] <<a, b, c>> = <<FALSE, FALSE, TRUE>> -> 1
      [] <<a, b, c>> = <<FALSE, TRUE, FALSE>> -> 2
      [] <<a, b, c>> = <<FALSE, TRUE, TRUE>> -> 3
      [] <<a, b, c>> = <<TRUE, FALSE, FALSE>> -> 2
      [] <<a, b, c>> = <<TRUE, FALSE, TRUE>> -> 3
      [] <<a, b, c>> = <<TRUE, TRUE, FALSE>> -> 3
      [] <<a, b, c>> = <<TRUE, TRUE, TRUE>> -> 4

\* C1: for Do(v) followed by pipe/pipeAwait steps whose asynchronous steps
\* return already-resolved promises, the caller of done() goes on after 0
\* ticks (Thunk), 1 tick (only the last step asynchronous) or 1 + N ticks
\* (N asynchronous steps otherwise); three steps follow the table of the tests.
C1_Ticks ==
    (caller.pc \in {"returned", "resumed"} /\ ResolvedPipeChain) =>
        /\ ~caller.fin
        /\ caller.at = TicksByRule
        /\ (cls = "Thunk") = (caller.pc = "returned")
        /\ Len(steps) = 4 =>
             caller.at = TicksByTable(steps[2].isAsync, steps[3].isAsync, steps[4].isAsync)

C1_Witness ==
    /\ caller.pc = "resumed" /\ ResolvedPipeChain /\ caller.ok
    /\ Len(steps) = 4 /\ NAsync = 3 /\ caller.at = 4

\* a step appended with pipe has returned a thenable
SyncReturnedThenable ==
    \E k \in 1..Len(trace) :
        trace[k].e = "ret" /\ trace[k].v.t = "Promise" /\ ~steps[trace[k].i].isAsync

LastSyncReturnedThenable ==
    /\ trace # <<>>
    /\ trace[Len(trace)].e = "ret" /\ trace[Len(trace)].i = Len(steps)
    /\ trace[Len(trace)].v.t = "Promise" /\ ~LastStep.isAsync

FailedWithUsageError == CallerDone /\ ~caller.ok /\ caller.v = UsageError

\* C2, as claimed: an AsyncThunk chain (of steps that do not raise or reject)
\* in which some pipe step returned a thenable, at any position, ends with the
\* usage error
C2_AnyPosition ==
    (cls = "AsyncThunk" /\ CallerDone /\ NoRaiseChain /\ SyncReturnedThenable)
        => FailedWithUsageError

\* C2, amended: done() of an AsyncThunk fails with the usage error exactly
\* when the last step of the chain was appended with pipe and has returned a
\* thenable; the failure is a rejection of the promise done() returned. A
\* thenable returned by an earlier pipe step is handed to the next step.
C2_LastPosition ==
    (cls = "AsyncThunk" /\ CallerDone) =>
        /\ LastSyncReturnedThenable => (caller.pc = "resumed" /\ FailedWithUsageError)
        /\ FailedWithUsageError => (caller.pc = "resumed" /\ LastSyncReturnedThenable)
        /\ (NoRaiseChain /\ ~LastSyncReturnedThenable) => caller.ok

C2_Witness ==
    /\ cls = "AsyncThunk" /\ caller.pc = "resumed" /\ FailedWithUsageError
    /\ LastSyncReturnedThenable

\* What a step hands on, as a function of what it is given: the value a
\* synchronous step returns, the settled value of the promise an asynchronous
\* step returns. A promise stands here as Val("Promise", n, t) of its value.
PromiseOf(y) == Val("Promise", y.n, y.t)

\* what a promise resolved with x settles to
SettledOf(x) == IF x.t = "Promise" THEN Val(x.m, x.n, "") ELSE x

HandsOn(s, x) ==
    CASE s.f.w = "seed" -> s.f.a[1]
      [] s.f.w = "tap" -> x
      [] s.f.w = "tapAwait" -> SettledOf(x)
      [] s.f.b \in {"inc", "resInc", "pendInc"} -> Plus(x, Num(1))
      [] s.f.b \in {"dbl", "double", "asyncDouble"} -> Times2(x)
      [] s.f.b = "mkp" -> PromiseOf(Times2(x))
      [] s.f.b = "plus" -> Plus(x, Arg1(s.f.a))
      [] OTHER -> Undef

RECURSIVE Composed(_)
Composed(k) == IF k = 0 THEN Undef ELSE HandsOn(steps[k], Composed(k - 1))

Denoted(v) == IF v.t = "Promise" THEN PromiseOf(ps[v.n].v) ELSE v

\* the misuse of C2: the composition ends in a thenable that a pipe step returned
EndsInSyncThenable == ~LastStep.isAsync /\ Composed(Len(steps)).t = "Promise"

IsOdd(k) == k % 2 = 1

\* C4: within one done(), the steps are invoked in append order, each at most
\* once and each after the one before it has returned; a step that follows an
\* asynchronous step on the general path is invoked only once that step's
\* promise has settled; on the fast path the asynchronous step is the last.
C4_Order ==
    /\ \A k \in 1..Len(trace) :
        /\ trace[k].i = (k + 1) \div 2
        /\ trace[k].i <= Len(steps)
        /\ IsOdd(k) <=> trace[k].e = "call"
        /\ (trace[k].e = "call" /\ k > 1) => trace[k - 1].e = "ret"
        /\ (trace[k].e = "call" /\ trace[k].i > 1 /\ steps[trace[k].i - 1].isAsync) =>
              trace[k].prev \in {"fulfilled", "rejected"}
    /\ (cls = "AsyncThunk" /\ isSimplePipeline) =>
          \A k \in 1..Len(trace) : trace[k].e = "call" => trace[k].prev = "none" \/ ~steps[trace[k].i - 1].isAsync

C4_Witness ==
    /\ Len(trace) = 2 * Len(steps) /\ Len(steps) = 4
    /\ steps[2].f.b = "pendInc" /\ steps[3].f.b = "pendInc"
    /\ trace[7].e = "call" /\ trace[7].prev = "fulfilled"

\* C5: as long as done() has not been called, whatever chain has been built
\* with Do, pipe, pipeAwait, rcall, rcallAwait, tap and tapAwait, no step has
\* been invoked, no promise made and no job queued.
C5_BuildingRunsNothing ==
    Building => (trace = <<>> /\ ps = <<>> /\ queue = <<CounterJob>> /\ frame.pc = "none")

C5_Witness ==
    /\ Building /\ Len(steps) = 4
    /\ {steps[k].f.w : k \in 1..4} = {"seed", "rcall", "tap", "tapAwait"}

\* a step appended as synchronous has raised
SyncStepRaised ==
    \E k \in 1..Len(trace) : trace[k].e = "throw" /\ ~steps[trace[k].i].isAsync

\* C20: when a synchronous step of an AsyncThunk raises e: if the only
\* asynchronous step is the last one, done() itself raises e, at once, and
\* returns no promise; if an asynchronous step comes before the last step,
\* done() returns a promise (it never raises) and e is the rejection of it.
C20_RaiseByShape ==
    /\ (cls = "AsyncThunk" /\ ~Building /\ ~OnlyLastAsync) => caller.pc # "threw"
    /\ (cls = "AsyncThunk" /\ ~Building /\ SyncStepRaised) =>
          IF OnlyLastAsync
          THEN caller.pc = "threw" /\ ~caller.ok /\ caller.v = UserErr /\ caller.at = 0
          ELSE /\ caller.pc \in {"awaiting", "resumed"}
               /\ caller.pc = "awaiting" =>
                    /\ caller.v.t = "Promise"
                    /\ ps[caller.v.n].s = "rejected" /\ ps[caller.v.n].v = UserErr
               /\ caller.pc = "resumed" => (~caller.ok /\ caller.v = UserErr)

\* Do(v).pipe(throw).pipeAwait(..).done() raises
C20_Witness ==
    /\ cls = "AsyncThunk" /\ Len(steps) = 3 /\ OnlyLastAsync
    /\ steps[2].f.b = "throw" /\ SyncStepRaised
    /\ caller.pc = "threw" /\ caller.v = UserErr

\* ---------------------------------------------------------------- properties of Try

Last == tlast[Len(tlast)]
OpIs(op) == tlast # <<>> /\ Last.op = op
InvokedAs(role) == {k \in 1..Len(tlog) : tlog[k].role = role}

\* C6: Try(f) never raises; it has invoked f exactly once when it returns, and
\* the chain it returns holds Ok{v} when f returned v and Err{e}, with the very
\* e, when f raised e; no later call invokes f again.
C6_TryCaptures ==
    /\ OpIs("Try") =>
        /\ tphase = "chain"
        /\ tlog = <<[role |-> "f", fn |-> Last.fn, arg |-> Undef]>>
        /\ tchain.type = (IF Last.fn = "ret" THEN "Ok" ELSE "Err")
        /\ tchain.v = Last.arg
    /\ (tlast # <<>> /\ tlast[1].op = "Try") => Cardinality(InvokedAs("f")) = 1

C6_Witness ==
    /\ OpIs("Try") /\ tphase = "chain"
    /\ tchain.type = "Err" /\ tchain.v = Val("ChildError", 4, "u")

\* C7: done() on Ok{v} returns v and does not invoke the fallback; on Err{e}
\* without fallback it raises e; on Err{e} with a fallback it invokes
\* fallback(e) exactly once and returns what it returns or raises what it
\* raises. So Try(() => v).done() is v and Try(() => { throw e }).done(() => d) is d.
C7_Done ==
    OpIs("done") =>
        /\ tprev.type = "Ok" =>
             (tphase = "value" /\ tout = tprev.v /\ InvokedAs("fallback") = {})
        /\ (tprev.type = "Err" /\ Last.fn = "none") =>
             (tphase = "raised" /\ tout = tprev.v /\ InvokedAs("fallback") = {})
        /\ (tprev.type = "Err" /\ Last.fn # "none") =>
             /\ InvokedAs("fallback") = {Len(tlog)}
             /\ tlog[Len(tlog)].arg = tprev.v
             /\ Last.fn = "const" => (tphase = "value" /\ tout = Fallback)
             /\ Last.fn = "echo" => (tphase = "value" /\ tout = tprev.v)
             /\ Last.fn = "throw2" => (tphase = "raised" /\ tout = SecondErr)
        /\ (Len(tlast) = 2 /\ tlast[1].op = "Try" /\ tlast[1].fn = "ret") =>
             (tphase = "value" /\ tout = tlast[1].arg)
        /\ (Len(tlast) = 2 /\ tlast[1].op = "Try" /\ tlast[1].fn = "throw" /\ Last.fn = "const") =>
             (tphase = "value" /\ tout = Fallback)

C7_Witness ==
    /\ OpIs("done") /\ Len(tlast) = 2 /\ tlast[1].fn = "throw" /\ Last.fn = "const"
    /\ tphase = "value" /\ tout = Fallback

\* whether pred matches e: what isErrorOf(e, pred) returns, where it returns
Matches(e, pred) == isErrorOf(e, pred, <<>>).out = "ret" /\ Truthy(isErrorOf(e, pred, <<>>).v)
MatchesNot(e, pred) == isErrorOf(e, pred, <<>>).out = "ret" /\ ~Truthy(isErrorOf(e, pred, <<>>).v)

\* C8: pick(pred) on Ok{v} returns a chain holding Ok{v}; on Err{e} that pred
\* matches, a chain holding Err{e}; on Err{e} that pred does not match it does
\* not return and raises e itself.
C8_Pick ==
    OpIs("pick") =>
        /\ tprev.type = "Ok" =>
             (tphase = "chain" /\ tchain.type = "Ok" /\ tchain.v = tprev.v)
        /\ (tprev.type = "Err" /\ Matches(tprev.v, Last.pred)) =>
             (tphase = "chain" /\ tchain.type = "Err" /\ tchain.v = tprev.v)
        /\ (tprev.type = "Err" /\ MatchesNot(tprev.v, Last.pred)) =>
             (tphase = "raised" /\ tout = tprev.v)

C8_Witness ==
    /\ OpIs("pick") /\ Last.pred = Ctor("TypeError")
    /\ tprev.type = "Err" /\ tprev.v = Val("DemoError", 3, "u")
    /\ tphase = "raised" /\ tout = tprev.v

\* the classes whose instances are instances of C: C and its subclasses
ClassesUnder(C) ==
    CASE C = "Error" -> {"Error", "TypeError", "DemoError", "ChildError"}
      [] C = "DemoError" -> {"DemoError", "ChildError"}
      [] OTHER -> {C}
ErrorCtors == {"Error", "TypeError", "DemoError", "ChildError"}
IsCtorPred(pred) == pred.k = "ctor"
IsA(e, pred) == e.t \in ClassesUnder(pred.c)

\* C9: an error constructor C (Error, a built-in subclass, a user's subclass)
\* matches every instance e of C or of a subclass of C: isErrorOf(e, C) is
\* truthy, pick(C) keeps Err{e}, and Try(() => { throw e }).pick(C).done(fb)
\* does not raise and returns fb(e).
C9_CtorMatchesInstances ==
    /\ (OpIs("isErrorOf") /\ IsCtorPred(Last.pred) /\ Last.pred.c \in ErrorCtors
            /\ IsA(Last.arg, Last.pred)) =>
          (tphase = "value" /\ Truthy(tout))
    /\ (OpIs("pick") /\ IsCtorPred(Last.pred) /\ Last.pred.c \in ErrorCtors
            /\ tprev.type = "Err" /\ IsA(tprev.v, Last.pred)) =>
          (tphase = "chain" /\ tchain.type = "Err" /\ tchain.v = tprev.v)
    /\ (OpIs("done") /\ Len(tlast) = 3 /\ tlast[1].op = "Try" /\ tlast[1].fn = "throw"
            /\ tlast[2].op = "pick" /\ IsCtorPred(tlast[2].pred)
            /\ tlast[2].pred.c \in ErrorCtors /\ IsA(tlast[1].arg, tlast[2].pred)
            /\ Last.fn \in {"const", "echo"}) =>
          /\ tphase = "value"
          /\ tout = (IF Last.fn = "const" THEN Fallback ELSE tlast[1].arg)
          /\ tlog[Len(tlog)] = [role |-> "fallback", fn |-> Last.fn, arg |-> tlast[1].arg]

C9_Witness ==
    /\ OpIs("done") /\ Len(tlast) = 3 /\ tlast[1].op = "Try"
    /\ tlast[1].arg = Val("ChildError", 4, "u")
    /\ tlast[2].op = "pick" /\ tlast[2].pred = Ctor("DemoError")
    /\ Last.fn = "echo" /\ tphase = "value" /\ tout = Val("ChildError", 4, "u")

\* C10, as claimed: a constructor C given as predicate is a membership test:
\* for e that is no instance of C or of a subclass of C, isErrorOf(e, C) is
\* false and raises nothing, pick(C) raises e again, and case(C, h) does not
\* invoke h.
C10_CtorRejectsOthers ==
    /\ (OpIs("isErrorOf") /\ IsCtorPred(Last.pred) /\ ~IsA(Last.arg, Last.pred)) =>
          (tphase = "value" /\ tout = Bool(FALSE))
    /\ (OpIs("pick") /\ IsCtorPred(Last.pred) /\ tprev.type = "Err" /\ ~IsA(tprev.v, Last.pred)) =>
          (tphase = "raised" /\ tout = tprev.v)
    /\ (OpIs("case") /\ IsCtorPred(Last.pred) /\ tprev.type = "Err" /\ ~IsA(tprev.v, Last.pred)) =>
          (tphase = "chain" /\ tchain = tprev /\ InvokedAs("handler") = {})

\* pick(Error) on a thrown string: the string is kept as a matched error
C10_Witness ==
    /\ OpIs("pick") /\ Last.pred = Ctor("Error")
    /\ tprev.type = "Err" /\ tprev.v = Str("oops")
    /\ tphase = "chain" /\ tchain.type = "Err" /\ tchain.v = Str("oops")

\* a classifier function given as predicate
IsClassifier(pred) == pred.k \in {"arrow", "function"}

\* C11, as claimed: a classifier function given as predicate, an arrow
\* function or a classic function, is invoked exactly once with the error;
\* isErrorOf returns what it returns and raises nothing.
C11_ClassifierInvokedOnce ==
    (OpIs("isErrorOf") /\ IsClassifier(Last.pred)) =>
        /\ tphase = "value"
        /\ tout = Classify(Last.pred.b, Last.arg)
        /\ tlog = <<[role |-> "pred", fn |-> Last.pred.b, arg |-> Last.arg]>>

\* isErrorOf(new TypeError(), (e) => e instanceof TypeError) raises, and the
\* arrow function has not been invoked
C11_Witness ==
    /\ OpIs("isErrorOf") /\ Last.pred = ArrowFn("isTypeError")
    /\ Last.arg = Val("TypeError", 2, "u")
    /\ tphase = "raised" /\ tout = NoPrototypeOf /\ tlog = <<>>

\* the error Try captured, and the case calls whose handler is to run: those
\* made on an Err whose predicate matches, no earlier case having matched
Captured == tlast[1].arg
TryThrew == tlast # <<>> /\ tlast[1].op = "Try" /\ tlast[1].fn = "throw"
HandlersDue ==
    {j \in 2..Len(tlast) :
        /\ TryThrew /\ tlast[j].op = "case" /\ Matches(Captured, tlast[j].pred)
        /\ \A i \in 2..(j - 1) : tlast[i].op = "case" => ~Matches(Captured, tlast[i].pred)}

\* C12: case(pred, handler) on Ok returns the same chain and does not invoke
\* the handler; on Err{e} that pred matches it invokes the handler once, with
\* a chain holding Err{e}, and returns a chain holding Ok{what it returned};
\* on Err{e} that pred does not match it invokes nothing, raises nothing and
\* returns the chain holding Err{e}. Over successive case calls at most one
\* handler runs, that of the first case whose predicate matches.
C12_Case ==
    /\ Cardinality(InvokedAs("handler")) = Cardinality(HandlersDue)
    /\ Cardinality(HandlersDue) <= 1
    /\ OpIs("case") =>
        /\ tprev.type = "Ok" => (tphase = "chain" /\ tchain = tprev)
        /\ (tprev.type = "Err" /\ Matches(tprev.v, Last.pred)) =>
             /\ tlog[Len(tlog)] = [role |-> "handler", fn |-> Last.fn, arg |-> tprev.v]
             /\ Last.fn = "const" =>
                  (tphase = "chain" /\ tchain.type = "Ok" /\ tchain.v = Fallback)
             /\ Last.fn = "throw2" => (tphase = "raised" /\ tout = SecondErr)
        /\ (tprev.type = "Err" /\ MatchesNot(tprev.v, Last.pred)) =>
             (tphase = "chain" /\ tchain = tprev)

C12_Witness ==
    /\ OpIs("case") /\ Len(tlast) = 3 /\ TryThrew /\ Captured = Val("TypeError", 2, "u")
    /\ tlast[2].op = "case" /\ tlast[2].pred = Ctor("DemoError")
    /\ Last.pred = Ctor("TypeError") /\ Last.fn = "const"
    /\ tphase = "chain" /\ tchain.type = "Ok" /\ tchain.v = Fallback
    /\ Cardinality(InvokedAs("handler")) = 1

\* the map calls made on an Ok: Try returned, or a handler has run before
MapsDue ==
    {j \in 2..Len(tlast) :
        /\ tlast[j].op = "map"
        /\ (tlast[1].op = "Try" /\ tlast[1].fn = "ret") \/ (\E i \in HandlersDue : i < j)}

\* C13: map(f) on Ok{v} invokes f(v) exactly once and returns a new chain
\* holding Ok{f(v)}; what f raises is raised by map, no chain being returned;
\* on Err{e} it does not invoke f and returns a chain holding Err{e}, the same e.
C13_Map ==
    /\ Cardinality(InvokedAs("map")) = Cardinality(MapsDue)
    /\ OpIs("map") =>
        /\ tprev.type = "Ok" =>
             /\ tlog[Len(tlog)] = [role |-> "map", fn |-> Last.fn, arg |-> tprev.v]
             /\ Last.fn = "inc" =>
                  (tphase = "chain" /\ tchain.type = "Ok" /\ tchain.v = Plus(tprev.v, Num(1)))
             /\ Last.fn = "throw2" => (tphase = "raised" /\ tout = SecondErr)
        /\ tprev.type = "Err" =>
             (tphase = "chain" /\ tchain.type = "Err" /\ tchain.v = tprev.v)

C13_Witness ==
    /\ OpIs("map") /\ Len(tlast) = 2 /\ tlast[1].fn = "ret" /\ tlast[1].arg = Num(42)
    /\ Last.fn = "throw2" /\ tphase = "raised" /\ tout = SecondErr
    /\ Cardinality(InvokedAs("map")) = 1

\* C16: for Try(f) where f raised e, as long as the expression goes on (no
\* callback or predicate has raised, pick has not raised) and no case
\* predicate has matched, the chain holds Err{e} with the same e; done()
\* without fallback then raises e, and it returns only from an Ok chain.
C16_FailureKept ==
    /\ (TryThrew /\ tphase = "chain" /\ HandlersDue = {}) =>
          (tchain.type = "Err" /\ tchain.v = Captured)
    /\ (OpIs("done") /\ Last.fn = "none") =>
          /\ (TryThrew /\ HandlersDue = {}) => (tphase = "raised" /\ tout = Captured)
          /\ tphase = "value" => tprev.type = "Ok"
          /\ tprev.type = "Err" => (tphase = "raised" /\ tout = tprev.v)

C16_Witness ==
    /\ OpIs("done") /\ Last.fn = "none" /\ Len(tlast) = 4 /\ TryThrew
    /\ Captured = Val("DemoError", 3, "u")
    /\ tlast[2].op = "tap" /\ tlast[2].fn = "log"
    /\ tlast[3].op = "case" /\ tlast[3].pred = Ctor("TypeError")
    /\ tphase = "raised" /\ tout = Captured

\* C17: isErrorOf(e, pred) raises the error 'Invalid predicate' for a pred
\* that is neither a function nor an array, whatever e; pick and case on an
\* Err chain raise it too, the handler not being invoked; on an Ok chain they
\* do not look at the predicate and raise nothing.
C17_InvalidPredicate ==
    /\ (OpIs("isErrorOf") /\ Last.pred.k = "invalid") =>
          (tphase = "raised" /\ tout = InvalidPredicate /\ tlog = <<>>)
    /\ (tlast # <<>> /\ Last.op \in {"pick", "case"} /\ Last.pred.k = "invalid") =>
          /\ tprev.type = "Err" =>
               (tphase = "raised" /\ tout = InvalidPredicate /\ InvokedAs("handler") = {})
          /\ tprev.type = "Ok" =>
               (tphase = "chain" /\ tchain.type = "Ok" /\ tchain.v = tprev.v)

C17_Witness ==
    /\ OpIs("case") /\ Last.pred = NotAPredicate("null") /\ tprev.type = "Err"
    /\ tphase = "raised" /\ tout = InvalidPredicate

\* ---------------------------------------------------------------- properties of TryAsync

TryAsyncMade == tlast # <<>> /\ tlast[1].op = "TryAsync"
\* promise 1 is the one TryAsync returned, promise 2 the one f returned
Quiescent == queue = <<>> /\ \A p \in 1..Len(ps) : ~(ps[p].s = "pending" /\ ps[p].timer)

\* C14: the promise of TryAsync(f) never rejects; it fulfils with a chain
\* holding Ok{v} when f's promise fulfils with v, with a chain holding Err{e}
\* when f's promise rejects with e and when f raises e before returning a
\* promise; the chain is made only once f's promise has settled, and the
\* awaiting caller goes on with it once nothing is left to run.
C14_TryAsync ==
    TryAsyncMade =>
        /\ ps[1].s # "rejected" /\ caller.pc # "threw"
        /\ Cardinality(InvokedAs("f")) = 1
        /\ tphase \in {"async", "chain"}
        /\ tphase = "async" => (ps[1].s = "pending" /\ caller.pc = "awaiting")
        /\ tphase = "chain" =>
             /\ ps[1].s = "fulfilled" /\ ps[1].v = ChainValue(tchain)
             /\ tlast[1].fn = "throw" =>
                  (Len(ps) = 1 /\ tchain.type = "Err" /\ tchain.v = tlast[1].arg)
             /\ tlast[1].fn # "throw" =>
                  /\ ps[2].s # "pending"
                  /\ tchain.type = (IF ps[2].s = "fulfilled" THEN "Ok" ELSE "Err")
                  /\ tchain.v = ps[2].v
             /\ tlast[1].fn = "resolve" => (tchain.type = "Ok" /\ tchain.v = tlast[1].arg)
             /\ tlast[1].fn = "reject" => (tchain.type = "Err" /\ tchain.v = tlast[1].arg)
        /\ caller.pc = "resumed" =>
             (caller.ok /\ tphase = "chain" /\ caller.v = ChainValue(tchain))
        /\ Quiescent => caller.pc = "resumed"

C14_Witness ==
    /\ TryAsyncMade /\ tlast[1].fn = "pending" /\ ps[2].s = "rejected"
    /\ caller.pc = "resumed" /\ caller.ok
    /\ tchain.type = "Err" /\ tchain.v = UserErr /\ caller.v = ChainValue(tchain)

\* ---------------------------------------------------------------- properties of predicates

\* the elements of a list that decide its evaluation of e: those that match,
\* and those whose evaluation raises
Decisive(e, items) == {i \in 1..Len(items) : ~MatchesNot(e, items[i])}
FirstDecisive(e, items) == CHOOSE i \in Decisive(e, items) : \A j \in Decisive(e, items) : i <= j

\* the classifier functions invoked by evaluating the elements 1..i, each alone
RECURSIVE LogUpTo(_, _, _)
LogUpTo(e, items, i) ==
    IF i = 0 THEN <<>> ELSE LogUpTo(e, items, i - 1) \o isErrorOf(e, items[i], <<>>).log

\* C15: a list predicate matches e exactly when one of its elements matches
\* e (nested lists alike, the empty list never); the elements are evaluated in
\* list order up to the first that matches, no later element being evaluated
\* (an element whose evaluation raises ends the evaluation with its raise).
C15_ListPredicate ==
    (OpIs("isErrorOf") /\ Last.pred.k = "list") =>
        /\ Decisive(Last.arg, Last.pred.items) = {} =>
             /\ tphase = "value" /\ tout = Bool(FALSE)
             /\ tlog = LogUpTo(Last.arg, Last.pred.items, Len(Last.pred.items))
        /\ Decisive(Last.arg, Last.pred.items) # {} =>
             /\ tlog = LogUpTo(Last.arg, Last.pred.items, FirstDecisive(Last.arg, Last.pred.items))
             /\ IF Matches(Last.arg, Last.pred.items[FirstDecisive(Last.arg, Last.pred.items)])
                THEN tphase = "value" /\ tout = Bool(TRUE)
                ELSE tphase = "raised"
        /\ (\A i \in 1..Len(Last.pred.items) :
                isErrorOf(Last.arg, Last.pred.items[i], <<>>).out = "ret") =>
             /\ tphase = "value"
             /\ tout = Bool(\E i \in 1..Len(Last.pred.items) : Matches(Last.arg, Last.pred.items[i]))

\* [TypeError, isString] on a TypeError: matched by the first element, the
\* classifier function after it is not invoked
C15_Witness ==
    /\ OpIs("isErrorOf") /\ Last.pred = ListOf(<<Ctor("TypeError"), ClassicFn("isString")>>)
    /\ Last.arg = Val("TypeError", 2, "u")
    /\ tphase = "value" /\ tout = Bool(TRUE) /\ tlog = <<>>

\* ---------------------------------------------------------------- properties of repeated done()

\* the calls of done() made, and the invocations of step i
Runs == 1 + DoneCalls
CallsOf(i) == Cardinality({k \in 1..Len(trace) : trace[k].e = "call" /\ trace[k].i = i})
DoneEvents == {k \in 1..Len(trace) : trace[k].e = "done"}

\* C18: the chain holds no execution state. For steps that do not raise,
\* every call of done() on a Thunk or an AsyncThunk invokes every step once,
\* from the seed: after k calls each step has been invoked k times; every
\* invocation, in overlapping executions too, is given what a lone execution
\* would give it, and every execution ends with the value of a lone execution.
C18_Reexecution ==
    (~Building /\ NoRaiseChain /\ ~(cls = "AsyncThunk" /\ EndsInSyncThenable)) =>
        /\ \A k \in 1..Len(trace) : trace[k].e # "doneThrew"
        /\ \A k \in 1..Len(trace) :
             trace[k].e = "call" => Denoted(trace[k].v) = Composed(trace[k].i - 1)
        /\ \A i \in 1..Len(steps) : CallsOf(i) <= Runs
        /\ cls = "Thunk" =>
             /\ \A i \in 1..Len(steps) : CallsOf(i) = Runs
             /\ \A k \in DoneEvents : Denoted(trace[k].v) = Composed(Len(steps))
        /\ Quiescent =>
             /\ \A i \in 1..Len(steps) : CallsOf(i) = Runs
             /\ CallerDone /\ caller.ok /\ Denoted(caller.v) = Composed(Len(steps))
             /\ cls = "AsyncThunk" =>
                  \A k \in DoneEvents :
                      /\ trace[k].v.t = "Promise"
                      /\ ps[trace[k].v.n].s = "fulfilled"
                      /\ Denoted(ps[trace[k].v.n].v) = Composed(Len(steps))

\* two executions of Do(42).pipeAwait(pendInc).pipe(dbl) that overlap: done()
\* was called again before the first execution invoked its last step
C18_Witness ==
    /\ cls = "AsyncThunk" /\ Quiescent /\ Runs = 2 /\ Len(steps) = 3
    /\ steps[1].f.a[1] = Num(42) /\ steps[2].f.b = "pendInc" /\ steps[3].f.b = "dbl"
    /\ CallsOf(3) = 2
    /\ \E k \in DoneEvents :
          /\ \A j \in 1..k : trace[j].i # 3
          /\ ps[trace[k].v.n].s = "fulfilled" /\ ps[trace[k].v.n].v = Num(86)
    /\ caller.pc = "resumed" /\ caller.v = Num(86)

\* ---------------------------------------------------------------- properties of kept chains

InHand == [cls |-> cls, steps |-> steps]

\* no chain object constructed so far is changed by the step taken
KeptAsBefore == \A j \in 1..Len(chains) : chains'[j] = chains[j]

\* a step that constructs a chain constructs one: the chain then in hand,
\* whose steps are those of the receiver and one more at the end
OneMoreStep ==
    chains' # chains =>
        /\ Len(chains') = Len(chains) + 1
        /\ chains'[Len(chains')] = [cls |-> cls', steps |-> steps']
        /\ cls # "none" =>
             /\ Len(steps') = Len(steps) + 1
             /\ SubSeq(steps', 1, Len(steps)) = steps
             /\ \E j \in 1..Len(chains) : chains'[j] = InHand

\* done() runs the steps of the chain it is called on, and no others
RunsItsOwnSteps ==
    /\ cls # "none" => \E j \in 1..Len(chains) : chains[j] = InHand
    /\ \A k \in 1..Len(trace) : trace[k].i <= Len(steps)
    /\ (CallerDone /\ NoRaiseChain /\ ~(cls = "AsyncThunk" /\ EndsInSyncThenable)) =>
          /\ \A i \in 1..Len(steps) : CallsOf(i) = 1
          /\ \A k \in 1..Len(trace) :
               trace[k].e = "call" => Denoted(trace[k].v) = Composed(trace[k].i - 1)
          /\ caller.ok /\ Denoted(caller.v) = Composed(Len(steps))

\* C19: appending a step (pipe, pipeAwait, rcall, rcallAwait, tap, tapAwait)
\* constructs a new chain whose steps are the receiver's and one more at the
\* end, and changes no chain that exists, the receiver included; done() on a
\* receiver that chains were extended from runs the receiver's own steps only,
\* and chains extended from one prefix do not affect each other.
C19_ReceiverUnchanged == [][KeptAsBefore /\ OneMoreStep]_vars /\ []RunsItsOwnSteps

\* Do(42).pipe(inc), extended twice, then done() on it: 43
C19_Witness ==
    /\ Len(chains) = 4 /\ chains[2] = InHand /\ Len(steps) = 2
    /\ steps[2].f.b = "inc" /\ steps[1].f.a[1] = Num(42)
    /\ Len(chains[3].steps) = 3 /\ SubSeq(chains[3].steps, 1, 2) = steps
    /\ Len(chains[4].steps) = 3 /\ SubSeq(chains[4].steps, 1, 2) = steps
    /\ chains[3] # chains[4]
    /\ caller.pc = "returned" /\ caller.v = Num(43)

\* ---------------------------------------------------------------- properties of failing steps

\* step i has raised
RaisedAt(i) == \E k \in 1..Len(trace) : trace[k].e = "throw" /\ trace[k].i = i

\* the promise the asynchronous step i returned has rejected
RejectedAt(i) ==
    /\ steps[i].isAsync
    /\ \E k \in 1..Len(trace) :
         /\ trace[k].e = "ret" /\ trace[k].i = i
         /\ trace[k].v.t = "Promise" /\ ps[trace[k].v.n].s = "rejected"

FailedAt(i) == RaisedAt(i) \/ RejectedAt(i)

\* the error step i has raised or rejected with
ErrorAt(i) ==
    LET k == CHOOSE k \in 1..Len(trace) : trace[k].i = i /\ trace[k].e \in {"throw", "ret"}
    IN  IF trace[k].e = "throw" THEN trace[k].v ELSE ps[trace[k].v.n].v

\* C21: when step i of a chain raises e, or the promise of the asynchronous
\* step i rejects with e, no step after i is invoked, the steps up to i have
\* each been invoked exactly once, and done() fails with the same e and with
\* nothing else: Thunk.done() raises it, AsyncThunk.done() raises it (only a
\* raise on the simple pipeline) or rejects with it, and the caller has it once
\* nothing is left to run.
C21_FailureStops ==
    \A i \in 1..Len(steps) :
        (~Building /\ FailedAt(i)) =>
            /\ \A k \in 1..Len(trace) : trace[k].i <= i
            /\ \A j \in 1..i : CallsOf(j) = 1
            /\ caller.pc # "returned"
            /\ CallerDone => (~caller.ok /\ caller.v = ErrorAt(i))
            /\ cls = "Thunk" => caller.pc = "threw"
            /\ caller.pc = "threw" => (RaisedAt(i) /\ (cls = "Thunk" \/ OnlyLastAsync))
            /\ (caller.pc = "awaiting" /\ ps[caller.v.n].s # "pending") =>
                  (ps[caller.v.n].s = "rejected" /\ ps[caller.v.n].v = ErrorAt(i))
            /\ Quiescent => CallerDone

\* Do(v).pipeAwait(f).pipe(g).pipeAwait(h): f's promise is rejected by a
\* later task; g and h are never invoked and the caller gets the rejection
C21_Witness ==
    /\ cls = "AsyncThunk" /\ Len(steps) = 4
    /\ steps[2].isAsync /\ steps[2].f.b = "pendInc" /\ ~steps[3].isAsync
    /\ RejectedAt(2) /\ CallsOf(2) = 1 /\ CallsOf(3) = 0
    /\ caller.pc = "resumed" /\ ~caller.ok /\ caller.v = UserErr

====
